---- MODULE Spec2Model ----
(***************************************************************************)
(* Model of the Huffman coder (HuffmanEncoding.cpp) and of the LZW coder   *)
(* (LZWLibrary.h).  One run is one top-level call, selected by `call`:     *)
(*   "compress"/"decompress"  compress(x) followed by decompress of the    *)
(*                            file compress wrote;                         *)
(*   "table"                  one table operation applied to an arbitrary  *)
(*                            frequency table (scramble/descramble,        *)
(*                            buildEncodingTree, writeFileHeader);         *)
(*   "lzw"                    compressString(x) followed by the LZW        *)
(*                            decompress of the emitted codes;             *)
(*   "lzwdecode"              the LZW decompress of an arbitrary code      *)
(*                            sequence.                                    *)
(* `pc` is the position inside the call.                                   *)
(***************************************************************************)
EXTENDS Integers, Sequences, FiniteSets, TLC

(* ------------------------------ bounds --------------------------------- *)
MaxLen == 3          \* longest input file given to compress
MaxCount == 2        \* largest count in an arbitrary frequency table
MaxLZWLen == 4       \* longest input string given to compressString
MaxCodes == 3        \* longest arbitrary code sequence given to LZW decompress
MaxOverrun == 2      \* reads past the end of the code vector before the
                     \* process leaves mapped memory

(* -------------------------- program constants -------------------------- *)
PSEUDO_EOF == 256
NOT_A_CHAR == 257
NULL == 0            \* the null Node*; nodes are numbered from 1
EOF == -1            \* what istream::get and ibstream::readBit return at end of file
ByteRange == 256     \* char(ch) keeps ch modulo 256
PairBase == 255      \* the constant of abs(ch - 255)
SeedSize == 256      \* initial dictSize of both LZW dictionaries
BitsPerByte == 8

\* Byte values used for file contents.  65 and 190 are paired by the
\* scramble; 207 and 223 are written to the header as '0' (48) and ' ' (32).
Alphabet == {65, 190, 207, 223}
LZWAlphabet == {65, 66}
\* codes for arbitrary LZW code sequences: known, next-free, unknown
CodeSet == {65, 66, 256, 257, 300}
\* what a read past the end of the code vector may find
GarbageCodes == {65, 300}

SeqsUpTo(S, n) == UNION {[1..k -> S] : k \in 0..n}
Min(S) == CHOOSE x \in S : \A y \in S : x <= y
Max(S) == CHOOSE x \in S : \A y \in S : x >= y
abs(n) == IF n < 0 THEN 0 - n ELSE n

(* --------------------------- the Map class ----------------------------- *)
EmptyMap == [k \in {} |-> 0]
Put(m, k, v) == [x \in (DOMAIN m) \cup {k} |-> IF x = k THEN v ELSE m[x]]
Get(m, k) == IF k \in DOMAIN m THEN m[k] ELSE 0
GetString(m, k) == IF k \in DOMAIN m THEN m[k] ELSE <<>>
Remove(m, k) == [x \in (DOMAIN m) \ {k} |-> m[x]]

VARIABLES
    call,          \* the top-level call being run
    pc,            \* position in it
    tieRule,       \* how the priority queue orders equal priorities
    infile,        \* compress's input stream: [data, pos, eof]
    freqTable,     \* the Map<ext_char,int> of the running call
    table0,        \* the table a "table" run was given
    nodes,         \* the Node objects allocated by buildEncodingTree
    pQueue,        \* buildEncodingTree's PriorityQueue<Node*>
    encodingTree,  \* the root buildEncodingTree returned
    outfile,       \* compress's output stream: [bytes, bits]
    encfile,       \* decompress's input stream: [bytes, bits, pos, fail, bitpos]
    prefixes,      \* encodeFile's Map<ext_char,string>
    extChars,      \* decodeFile's Map<string,ext_char>
    dec,           \* decodeFile's locals: [numBits, numBitsRead, nextPrefix]
    resultFile,    \* the bytes decodeFile wrote
    uncompressed,  \* compressString's input
    lzwC,          \* compressString's locals: [dictionary, dictSize, w, it]
    compressed,    \* the codes compressString emitted / decompress is given
    lzwD           \* LZW decompress's locals: [dictionary, dictSize, w, result, entry, begin]

huffVars == <<tieRule, infile, freqTable, table0, nodes, pQueue, encodingTree,
              outfile, encfile, prefixes, extChars, dec, resultFile>>
lzwVars == <<uncompressed, lzwC, compressed, lzwD>>
vars == <<call, pc, huffVars, lzwVars>>

(* ------------------------- getFrequencyTable --------------------------- *)
\* istream::get: the next byte, or -1 with the eof flag set
StreamGet(f) ==
    IF f.pos < Len(f.data)
    THEN [ch |-> f.data[f.pos + 1], f |-> [f EXCEPT !.pos = @ + 1]]
    ELSE [ch |-> EOF, f |-> [f EXCEPT !.eof = TRUE]]

\* the ext_char of a value read from the stream
ToExtChar(nextChar) ==
    IF nextChar < 256 /\ nextChar >= 0 THEN nextChar ELSE NOT_A_CHAR

\* mutant: every occurrence sets the count to 1
CountChar_NoAdd(freqMap, nextChar) ==
    IF nextChar = EOF THEN freqMap
    ELSE Put(freqMap, ToExtChar(nextChar), 1)

\* body of the counting loop after the read
CountChar(freqMap, nextChar) ==
    IF nextChar = EOF THEN freqMap
    ELSE Put(freqMap, ToExtChar(nextChar), Get(freqMap, ToExtChar(nextChar)) + 1)

GetFrequencyTableLoop ==
    /\ pc = "getFrequencyTable"
    /\ ~infile.eof
    /\ LET r == StreamGet(infile)
       IN  /\ infile' = r.f
           /\ freqTable' = CountChar(freqTable, r.ch)
    /\ UNCHANGED <<call, pc, tieRule, table0, nodes, pQueue, encodingTree,
                   outfile, encfile, prefixes, extChars, dec, resultFile, lzwVars>>

GetFrequencyTableReturn ==
    /\ pc = "getFrequencyTable"
    /\ infile.eof
    /\ freqTable' = Put(freqTable, PSEUDO_EOF, 1)
    /\ pc' = "buildEncodingTree"
    /\ UNCHANGED <<call, tieRule, infile, table0, nodes, pQueue, encodingTree,
                   outfile, encfile, prefixes, extChars, dec, resultFile, lzwVars>>

(* ------------------------- buildEncodingTree --------------------------- *)
NewNode(character, weight, zero, one) ==
    [character |-> character, weight |-> weight, zero |-> zero, one |-> one]

Enqueue(pq, value, priority) == Append(pq, [value |-> value, priority |-> priority])

\* mutant: dequeue returns the element of highest priority value
DequeueIndex_Highest(pq, rule) ==
    LET highest == Max({pq[i].priority : i \in 1..Len(pq)})
        cands == {i \in 1..Len(pq) : pq[i].priority = highest}
    IN  IF rule = "fifo" THEN Min(cands) ELSE Max(cands)

\* position in the queue of the element dequeue returns
DequeueIndex(pq, rule) ==
    LET lowest == Min({pq[i].priority : i \in 1..Len(pq)})
        cands == {i \in 1..Len(pq) : pq[i].priority = lowest}
    IN  IF rule = "fifo" THEN Min(cands) ELSE Max(cands)

RemoveAt(s, i) == SubSeq(s, 1, i - 1) \o SubSeq(s, i + 1, Len(s))

\* step 1: one singleton node per key, in the Map's (ascending) key order
RECURSIVE EnqueueLeaves(_, _, _, _)
EnqueueLeaves(frequencies, keys, ns, pq) ==
    IF keys = {} THEN [nodes |-> ns, pQueue |-> pq]
    ELSE LET key == Min(keys)
             cNode == NewNode(key, frequencies[key], NULL, NULL)
         IN  EnqueueLeaves(frequencies, keys \ {key}, Append(ns, cNode),
                           Enqueue(pq, Len(ns) + 1, cNode.weight))

\* mutant: the parent takes the weight of its zero child only
MergeLowest_ZeroWeight(ns, pq, rule) ==
    LET i1 == DequeueIndex(pq, rule)
        lowest == pq[i1].value
        pq1 == RemoveAt(pq, i1)
        i2 == DequeueIndex(pq1, rule)
        secondLowest == pq1[i2].value
        pq2 == RemoveAt(pq1, i2)
        parent == NewNode(NOT_A_CHAR, ns[lowest].weight, lowest, secondLowest)
    IN  [nodes |-> Append(ns, parent),
         pQueue |-> Enqueue(pq2, Len(ns) + 1, parent.weight)]

\* steps 2 and 3: one iteration of the merge loop
MergeLowest(ns, pq, rule) ==
    LET i1 == DequeueIndex(pq, rule)
        lowest == pq[i1].value
        pq1 == RemoveAt(pq, i1)
        i2 == DequeueIndex(pq1, rule)
        secondLowest == pq1[i2].value
        pq2 == RemoveAt(pq1, i2)
        parent == NewNode(NOT_A_CHAR, ns[lowest].weight + ns[secondLowest].weight,
                          lowest, secondLowest)
    IN  [nodes |-> Append(ns, parent),
         pQueue |-> Enqueue(pq2, Len(ns) + 1, parent.weight)]

BuildEncodingTreeEnqueue ==
    /\ pc = "buildEncodingTree"
    /\ LET r == EnqueueLeaves(freqTable, DOMAIN freqTable, <<>>, <<>>)
       IN  /\ nodes' = r.nodes
           /\ pQueue' = r.pQueue
    /\ encodingTree' = NULL
    /\ pc' = "buildEncodingTree_merge"
    /\ UNCHANGED <<call, tieRule, infile, freqTable, table0, outfile, encfile,
                   prefixes, extChars, dec, resultFile, lzwVars>>

BuildEncodingTreeMerge ==
    /\ pc = "buildEncodingTree_merge"
    /\ Len(pQueue) > 1
    /\ LET r == MergeLowest(nodes, pQueue, tieRule)
       IN  /\ nodes' = r.nodes
           /\ pQueue' = r.pQueue
    /\ UNCHANGED <<call, pc, tieRule, infile, freqTable, table0, encodingTree,
                   outfile, encfile, prefixes, extChars, dec, resultFile, lzwVars>>

\* step 5: return pQueue.peek(); peek on an empty queue is the library's error()
BuildEncodingTreeReturn ==
    /\ pc = "buildEncodingTree_merge"
    /\ Len(pQueue) <= 1
    /\ IF Len(pQueue) = 0
       THEN /\ pc' = "peekError"
            /\ UNCHANGED encodingTree
       ELSE /\ encodingTree' = pQueue[1].value
            /\ pc' = CASE call = "compress" -> "writeFileHeader"
                       [] call \in {"decompress", "decode"} -> "decodeFile"
                       [] OTHER -> "derivePrefixes"
    /\ UNCHANGED <<call, tieRule, infile, freqTable, table0, nodes, pQueue,
                   outfile, encfile, prefixes, extChars, dec, resultFile, lzwVars>>

(* ----------------------- prefix code derivation ------------------------ *)
\* mutant: the zero edge appends nothing, so a zero child gets its parent's string
encTreeToBinaryPrefixes_NoZero(ns, tree, pfx, soFar) ==
    LET RECURSIVE walk(_, _, _)
        walk(n, m, s) ==
            IF ns[n].one = NULL /\ ns[n].zero = NULL
            THEN Put(m, ns[n].character, s)
            ELSE LET m1 == IF ns[n].zero # NULL THEN walk(ns[n].zero, m, s) ELSE m
                 IN  IF ns[n].one # NULL
                     THEN walk(ns[n].one, m1, Append(s, "1")) ELSE m1
    IN  walk(tree, pfx, soFar)

RECURSIVE encTreeToBinaryPrefixes(_, _, _, _)
encTreeToBinaryPrefixes(ns, tree, pfx, soFar) ==
    IF ns[tree].one = NULL /\ ns[tree].zero = NULL
    THEN Put(pfx, ns[tree].character, soFar)
    ELSE LET afterZero ==
                 IF ns[tree].zero # NULL
                 THEN encTreeToBinaryPrefixes(ns, ns[tree].zero, pfx, Append(soFar, "0"))
                 ELSE pfx
         IN  IF ns[tree].one # NULL
             THEN encTreeToBinaryPrefixes(ns, ns[tree].one, afterZero, Append(soFar, "1"))
             ELSE afterZero

RECURSIVE binaryPrefixsToExtChars(_, _, _, _)
binaryPrefixsToExtChars(ns, tree, ext, soFar) ==
    IF ns[tree].one = NULL /\ ns[tree].zero = NULL
    THEN Put(ext, soFar, ns[tree].character)
    ELSE LET afterZero ==
                 IF ns[tree].zero # NULL
                 THEN binaryPrefixsToExtChars(ns, ns[tree].zero, ext, Append(soFar, "0"))
                 ELSE ext
         IN  IF ns[tree].one # NULL
             THEN binaryPrefixsToExtChars(ns, ns[tree].one, afterZero, Append(soFar, "1"))
             ELSE afterZero

\* "table" runs: both derivers applied to the tree just built
DerivePrefixes ==
    /\ pc = "derivePrefixes"
    /\ prefixes' = encTreeToBinaryPrefixes(nodes, encodingTree, EmptyMap, <<>>)
    /\ extChars' = binaryPrefixsToExtChars(nodes, encodingTree, EmptyMap, <<>>)
    /\ pc' = "derived"
    /\ UNCHANGED <<call, tieRule, infile, freqTable, table0, nodes, pQueue,
                   encodingTree, outfile, encfile, dec, resultFile, lzwVars>>

(* ---------------------- performScrambleOperation ----------------------- *)
\* mutant: the entry is copied to its pair and never removed
ScrambleEntry_NoRemove(frequencies, ch, decode) ==
    LET oldFreq == Get(frequencies, ch)
        scrambledCh == IF decode THEN abs(PairBase - ch) ELSE abs(ch - PairBase)
        oldEncodedChFreq == Get(frequencies, scrambledCh)
    IN  IF scrambledCh \in DOMAIN frequencies
        THEN Put(Put(frequencies, scrambledCh, oldFreq), ch, oldEncodedChFreq)
        ELSE Put(frequencies, scrambledCh, oldFreq)

\* the swap or move of one entry (the loop body after the two skips)
ScrambleEntry(frequencies, ch, decode) ==
    LET oldFreq == Get(frequencies, ch)
        scrambledCh == IF decode THEN abs(PairBase - ch) ELSE abs(ch - PairBase)
        oldEncodedChFreq == Get(frequencies, scrambledCh)
    IN  IF scrambledCh \in DOMAIN frequencies
        THEN Put(Put(frequencies, scrambledCh, oldFreq), ch, oldEncodedChFreq)
        ELSE Remove(Put(frequencies, scrambledCh, oldFreq), ch)

ScrambledCh(ch, decode) == IF decode THEN abs(PairBase - ch) ELSE abs(ch - PairBase)

\* mutant: alreadySwapped is never consulted, so the second key of a pair
\* swaps the pair back
RECURSIVE ScrambleLoop_NoVisited(_, _, _, _, _, _)
ScrambleLoop_NoVisited(frequencies, keys0, last, alreadySwapped, decode, live) ==
    LET rest == {k \in (IF live THEN DOMAIN frequencies ELSE keys0) : k > last}
    IN  IF rest = {} THEN frequencies
        ELSE LET ch == Min(rest)
             IN  IF ch = PSEUDO_EOF \/ ch = NOT_A_CHAR
                 THEN ScrambleLoop_NoVisited(frequencies, keys0, ch, alreadySwapped,
                                             decode, live)
                 ELSE ScrambleLoop_NoVisited(ScrambleEntry(frequencies, ch, decode),
                                             keys0, ch, alreadySwapped, decode, live)

\* The foreach over the Map while the loop body changes it.  The Map is
\* visited in ascending key order; `live` tells whether the traversal sees
\* the keys of the Map as it is now or the keys it had when the loop began.
\* `last` is the key visited last (-1 before the first).
RECURSIVE ScrambleLoop(_, _, _, _, _, _)
ScrambleLoop(frequencies, keys0, last, alreadySwapped, decode, live) ==
    LET rest == {k \in (IF live THEN DOMAIN frequencies ELSE keys0) : k > last}
    IN  IF rest = {} THEN frequencies
        ELSE LET ch == Min(rest)
             IN  IF ch = PSEUDO_EOF \/ ch = NOT_A_CHAR
                 THEN ScrambleLoop(frequencies, keys0, ch, alreadySwapped, decode, live)
                 ELSE IF ch \in alreadySwapped
                 THEN ScrambleLoop(frequencies, keys0, ch, alreadySwapped, decode, live)
                 ELSE ScrambleLoop(ScrambleEntry(frequencies, ch, decode), keys0, ch,
                                   alreadySwapped \cup {ScrambledCh(ch, decode)},
                                   decode, live)

performScrambleOperation(frequencies, decode, live) ==
    ScrambleLoop(frequencies, DOMAIN frequencies, EOF, {}, decode, live)

scrambleTable(frequencies, live) == performScrambleOperation(frequencies, FALSE, live)
descrambleTable(frequencies, live) == performScrambleOperation(frequencies, TRUE, live)

\* "table" runs: scrambleTable, then descrambleTable on its result
ScrambleTable ==
    /\ pc = "scrambleTable"
    /\ \E live \in BOOLEAN : freqTable' = scrambleTable(freqTable, live)
    /\ pc' = "descrambleTable"
    /\ UNCHANGED <<call, tieRule, infile, table0, nodes, pQueue, encodingTree,
                   outfile, encfile, prefixes, extChars, dec, resultFile, lzwVars>>

DescrambleTable ==
    /\ pc = "descrambleTable"
    /\ \E live \in BOOLEAN : freqTable' = descrambleTable(freqTable, live)
    /\ pc' = "descrambled"
    /\ UNCHANGED <<call, tieRule, infile, table0, nodes, pQueue, encodingTree,
                   outfile, encfile, prefixes, extChars, dec, resultFile, lzwVars>>

(* --------------------------- writeFileHeader --------------------------- *)
char(ch) == ch % ByteRange

RECURSIVE Digits(_)
Digits(n) == IF n < 10 THEN <<48 + n>> ELSE Append(Digits(n \div 10), 48 + (n % 10))
\* operator<<(int): the decimal digits, '-' first when negative
FormatInt(n) == IF n < 0 THEN <<45>> \o Digits(0 - n) ELSE Digits(n)

\* the letter/frequency pairs, in the Map's key order, PSEUDO_EOF skipped
RECURSIVE HeaderPairs(_, _)
HeaderPairs(frequencies, keys) ==
    IF keys = {} THEN <<>>
    ELSE LET ch == Min(keys)
         IN  IF ch = PSEUDO_EOF THEN HeaderPairs(frequencies, keys \ {ch})
             ELSE <<char(ch)>> \o FormatInt(frequencies[ch]) \o <<32>>
                  \o HeaderPairs(frequencies, keys \ {ch})

\* mutant: the count written includes the PSEUDO_EOF entry
HeaderBytes_CountsEof(frequencies) ==
    FormatInt(Cardinality(DOMAIN frequencies)) \o <<32>>
    \o HeaderPairs(frequencies, DOMAIN frequencies)

\* what is written once the PSEUDO_EOF check has passed
HeaderBytes(frequencies) ==
    FormatInt(Cardinality(DOMAIN frequencies) - 1) \o <<32>>
    \o HeaderPairs(frequencies, DOMAIN frequencies)

\* mutant: the PSEUDO_EOF check comes after the count has been written
writeFileHeader_CheckLate(bytes, frequencies) ==
    IF PSEUDO_EOF \notin DOMAIN frequencies
    THEN [error |-> TRUE,
          bytes |-> bytes \o FormatInt(Cardinality(DOMAIN frequencies) - 1) \o <<32>>]
    ELSE [error |-> FALSE, bytes |-> bytes \o HeaderBytes(frequencies)]

\* writeFileHeader after the scramble: error("No PSEUDO_EOF defined.") with
\* nothing written, or the header appended to the stream's bytes
writeFileHeader(bytes, frequencies) ==
    IF PSEUDO_EOF \notin DOMAIN frequencies
    THEN [error |-> TRUE, bytes |-> bytes]
    ELSE [error |-> FALSE, bytes |-> bytes \o HeaderBytes(frequencies)]

WriteFileHeader ==
    /\ pc = "writeFileHeader"
    /\ \E live \in BOOLEAN :
         LET scrambled == scrambleTable(freqTable, live)
             r == writeFileHeader(outfile.bytes, scrambled)
         IN  /\ freqTable' = scrambled
             /\ outfile' = [outfile EXCEPT !.bytes = r.bytes]
             /\ pc' = IF r.error THEN "error"
                      ELSE IF call = "compress" THEN "rewind" ELSE "reopen"
    /\ UNCHANGED <<call, tieRule, infile, table0, nodes, pQueue, encodingTree,
                   encfile, prefixes, extChars, dec, resultFile, lzwVars>>

(* ---------------------------- readFileHeader --------------------------- *)
IsSpace(b) == b \in {9, 10, 11, 12, 13, 32}
IsDigit(b) == b >= 48 /\ b <= 57

\* ibstream::get on the header text: the next byte, or -1 with the stream failed
GetByte(s) ==
    IF s.fail \/ s.pos >= Len(s.bytes)
    THEN [ch |-> EOF, s |-> [s EXCEPT !.fail = TRUE]]
    ELSE [ch |-> s.bytes[s.pos + 1], s |-> [s EXCEPT !.pos = @ + 1]]

RECURSIVE SkipSpace(_, _)
SkipSpace(bytes, pos) ==
    IF pos < Len(bytes) /\ IsSpace(bytes[pos + 1]) THEN SkipSpace(bytes, pos + 1) ELSE pos

RECURSIVE ReadDigits(_, _, _)
ReadDigits(bytes, pos, val) ==
    IF pos < Len(bytes) /\ IsDigit(bytes[pos + 1])
    THEN ReadDigits(bytes, pos + 1, 10 * val + (bytes[pos + 1] - 48))
    ELSE [val |-> val, pos |-> pos]

\* operator>>(int&): skip white space, an optional sign, then digits; with no
\* digit the stream fails and the value is 0
ExtractInt(s) ==
    IF s.fail THEN [val |-> 0, s |-> s]
    ELSE LET p0 == SkipSpace(s.bytes, s.pos)
             signed == p0 < Len(s.bytes) /\ s.bytes[p0 + 1] \in {43, 45}
             negative == signed /\ s.bytes[p0 + 1] = 45
             p1 == IF signed THEN p0 + 1 ELSE p0
             r == ReadDigits(s.bytes, p1, 0)
         IN  IF r.pos = p1
             THEN [val |-> 0, s |-> [s EXCEPT !.pos = p1, !.fail = TRUE]]
             ELSE [val |-> IF negative THEN 0 - r.val ELSE r.val,
                   s |-> [s EXCEPT !.pos = r.pos]]

\* mutant: the space after a frequency is left in the stream
RECURSIVE ReadPairs_NoSeparator(_, _, _, _)
ReadPairs_NoSeparator(s, result, i, numValues) ==
    IF ~(i < numValues) THEN [result |-> result, s |-> s]
    ELSE LET c == GetByte(s)
             f == ExtractInt(c.s)
         IN  ReadPairs_NoSeparator(f.s, Put(result, c.ch, f.val), i + 1, numValues)

\* the loop reading numValues pairs
RECURSIVE ReadPairs(_, _, _, _)
ReadPairs(s, result, i, numValues) ==
    IF ~(i < numValues) THEN [result |-> result, s |-> s]
    ELSE LET c == GetByte(s)
             f == ExtractInt(c.s)
             sp == GetByte(f.s)
         IN  ReadPairs(sp.s, Put(result, c.ch, f.val), i + 1, numValues)

\* readFileHeader up to the descramble
ParseHeader(s) ==
    LET n == ExtractInt(s)
        sp == GetByte(n.s)
        r == ReadPairs(sp.s, EmptyMap, 0, n.val)
    IN  [result |-> Put(r.result, PSEUDO_EOF, 1), s |-> r.s]

ReadFileHeader ==
    /\ pc = "readFileHeader"
    /\ LET r == ParseHeader(encfile)
       IN  /\ encfile' = r.s
           /\ \E live \in BOOLEAN : freqTable' = descrambleTable(r.result, live)
    /\ pc' = IF call \in {"decompress", "decode"} THEN "buildEncodingTree"
             ELSE "headerRead"
    /\ UNCHANGED <<call, tieRule, infile, table0, nodes, pQueue, encodingTree,
                   outfile, prefixes, extChars, dec, resultFile, lzwVars>>

(* ------------------------------ encodeFile ----------------------------- *)
\* mutant: the character is compared with 0 instead of '0', so every bit is 1
writeEncodingPrefix_AllOnes(prefix) == [i \in 1..Len(prefix) |-> 1]

\* mutant: the loop runs from the last character of the prefix to the first
writeEncodingPrefix_Reversed(prefix) ==
    [i \in 1..Len(prefix) |-> IF prefix[Len(prefix) + 1 - i] = "0" THEN 0 ELSE 1]

\* the bits writeEncodingPrefix passes to writeBit, first character first
writeEncodingPrefix(prefix) ==
    [i \in 1..Len(prefix) |-> IF prefix[i] = "0" THEN 0 ELSE 1]

\* mutant: the input stream is left where the frequency pass ended
Rewind_NoReset ==
    /\ pc = "rewind"
    /\ pc' = "encodeFile"
    /\ UNCHANGED <<call, tieRule, infile, freqTable, table0, nodes, pQueue,
                   encodingTree, outfile, encfile, prefixes, extChars, dec,
                   resultFile, lzwVars>>

Rewind ==
    /\ pc = "rewind"
    /\ infile' = [infile EXCEPT !.pos = 0, !.eof = FALSE]
    /\ pc' = "encodeFile"
    /\ UNCHANGED <<call, tieRule, freqTable, table0, nodes, pQueue, encodingTree,
                   outfile, encfile, prefixes, extChars, dec, resultFile, lzwVars>>

EncodeFileStart ==
    /\ pc = "encodeFile"
    /\ prefixes' = encTreeToBinaryPrefixes(nodes, encodingTree, EmptyMap, <<>>)
    /\ pc' = "encodeFile_loop"
    /\ UNCHANGED <<call, tieRule, infile, freqTable, table0, nodes, pQueue,
                   encodingTree, outfile, encfile, extChars, dec, resultFile, lzwVars>>

EncodeFileLoop ==
    /\ pc = "encodeFile_loop"
    /\ ~infile.eof
    /\ LET r == StreamGet(infile)
       IN  /\ infile' = r.f
           /\ IF r.ch = EOF THEN UNCHANGED outfile
              ELSE outfile' = [outfile EXCEPT !.bits =
                       @ \o writeEncodingPrefix(GetString(prefixes, ToExtChar(r.ch)))]
    /\ UNCHANGED <<call, pc, tieRule, freqTable, table0, nodes, pQueue, encodingTree,
                   encfile, prefixes, extChars, dec, resultFile, lzwVars>>

\* the loop is left at end of file: PSEUDO_EOF's prefix is written
EncodeFileEnd ==
    /\ pc = "encodeFile_loop"
    /\ infile.eof
    /\ outfile' = [outfile EXCEPT !.bits =
                       @ \o writeEncodingPrefix(GetString(prefixes, PSEUDO_EOF))]
    /\ pc' = "freeTree"
    /\ UNCHANGED <<call, tieRule, infile, freqTable, table0, nodes, pQueue,
                   encodingTree, encfile, prefixes, extChars, dec, resultFile, lzwVars>>

FreeTree ==
    /\ pc = "freeTree"
    /\ nodes' = <<>>
    /\ encodingTree' = NULL
    /\ pc' = IF call = "compress" THEN "reopen" ELSE "done"
    /\ UNCHANGED <<call, tieRule, infile, freqTable, table0, pQueue, outfile,
                   encfile, prefixes, extChars, dec, resultFile, lzwVars>>

\* writeBit fills whole bytes: the last byte's unwritten bits are 0
PadToByte(bits) ==
    bits \o [i \in 1..((BitsPerByte - (Len(bits) % BitsPerByte)) % BitsPerByte) |-> 0]

\* the written file is closed and opened for reading
Reopen ==
    /\ pc = "reopen"
    /\ encfile' = [bytes |-> outfile.bytes, bits |-> PadToByte(outfile.bits),
                   pos |-> 0, fail |-> FALSE, bitpos |-> 0]
    /\ call' = IF call = "compress" THEN "decompress" ELSE call
    /\ pc' = "readFileHeader"
    /\ UNCHANGED <<tieRule, infile, freqTable, table0, nodes, pQueue, encodingTree,
                   outfile, prefixes, extChars, dec, resultFile, lzwVars>>

(* ------------------------------ decodeFile ----------------------------- *)
\* ibstream::size: the length of the whole file in bytes
size(s) == Len(s.bytes) + (Len(s.bits) \div BitsPerByte)

\* ibstream::readBit: the next bit, or -1 at end of file
readBit(s) ==
    IF s.bitpos < Len(s.bits)
    THEN [bit |-> s.bits[s.bitpos + 1], s |-> [s EXCEPT !.bitpos = @ + 1]]
    ELSE [bit |-> EOF, s |-> s]

\* mutant: the loop condition never turns false
InBitBudget_Always(numBitsRead, numBits) == numBitsRead >= 0

\* the loop condition of decodeFile
InBitBudget(numBitsRead, numBits) == numBitsRead <= numBits

DecodeFileStart ==
    /\ pc = "decodeFile"
    /\ dec' = [numBits |-> size(encfile) * 8, numBitsRead |-> 0, nextPrefix |-> <<>>]
    /\ extChars' = binaryPrefixsToExtChars(nodes, encodingTree, EmptyMap, <<>>)
    /\ pc' = "decodeFile_loop"
    /\ UNCHANGED <<call, tieRule, infile, freqTable, table0, nodes, pQueue,
                   encodingTree, outfile, encfile, prefixes, resultFile, lzwVars>>

\* mutant: the break on PSEUDO_EOF is missing, the loop goes on after the match
DecodeFileLoop_NoBreak ==
    /\ pc = "decodeFile_loop"
    /\ InBitBudget(dec.numBitsRead, dec.numBits)
    /\ LET r == readBit(encfile)
           nextPrefix == Append(dec.nextPrefix, IF r.bit = 0 THEN "0" ELSE "1")
       IN  /\ encfile' = r.s
           /\ IF nextPrefix \in DOMAIN extChars
              THEN /\ dec' = [dec EXCEPT !.numBitsRead = @ + 1, !.nextPrefix = <<>>]
                   /\ IF extChars[nextPrefix] = PSEUDO_EOF
                      THEN UNCHANGED resultFile
                      ELSE resultFile' = Append(resultFile, char(extChars[nextPrefix]))
              ELSE /\ dec' = [dec EXCEPT !.numBitsRead = @ + 1, !.nextPrefix = nextPrefix]
                   /\ UNCHANGED resultFile
    /\ UNCHANGED <<call, pc, tieRule, infile, freqTable, table0, nodes, pQueue,
                   encodingTree, outfile, prefixes, extChars, lzwVars>>

DecodeFileLoop ==
    /\ pc = "decodeFile_loop"
    /\ InBitBudget(dec.numBitsRead, dec.numBits)
    /\ LET r == readBit(encfile)
           nextPrefix == Append(dec.nextPrefix, IF r.bit = 0 THEN "0" ELSE "1")
       IN  /\ encfile' = r.s
           /\ IF nextPrefix \in DOMAIN extChars
              THEN /\ dec' = [dec EXCEPT !.numBitsRead = @ + 1, !.nextPrefix = <<>>]
                   /\ IF extChars[nextPrefix] = PSEUDO_EOF
                      THEN /\ pc' = "freeTree"
                           /\ UNCHANGED resultFile
                      ELSE /\ resultFile' = Append(resultFile, char(extChars[nextPrefix]))
                           /\ UNCHANGED pc
              ELSE /\ dec' = [dec EXCEPT !.numBitsRead = @ + 1, !.nextPrefix = nextPrefix]
                   /\ UNCHANGED <<pc, resultFile>>
    /\ UNCHANGED <<call, tieRule, infile, freqTable, table0, nodes, pQueue,
                   encodingTree, outfile, prefixes, extChars, lzwVars>>

DecodeFileExit ==
    /\ pc = "decodeFile_loop"
    /\ ~InBitBudget(dec.numBitsRead, dec.numBits)
    /\ pc' = "freeTree"
    /\ UNCHANGED <<call, tieRule, infile, freqTable, table0, nodes, pQueue,
                   encodingTree, outfile, encfile, prefixes, extChars, dec,
                   resultFile, lzwVars>>

(* ------------------------ LZW: compressString -------------------------- *)
\* std::string(1, i) for i in 0..255, as a sequence of byte values
SeedStrings == {<<i>> : i \in 0..(SeedSize - 1)}

CompressStringStart ==
    /\ pc = "compressString"
    /\ lzwC' = [dictionary |-> [s \in SeedStrings |-> s[1]], dictSize |-> SeedSize,
                w |-> <<>>, it |-> 0]
    /\ compressed' = <<>>
    /\ pc' = "compressString_loop"
    /\ UNCHANGED <<call, huffVars, uncompressed, lzwD>>

\* mutant: a code is emitted for w also when w + c is found
CompressStep_EmitOnHit(st, codes, c) ==
    LET wc == Append(st.w, c)
    IN  IF wc \in DOMAIN st.dictionary
        THEN [st |-> [st EXCEPT !.w = wc, !.it = @ + 1],
              codes |-> IF st.w # <<>> THEN Append(codes, Get(st.dictionary, st.w))
                        ELSE codes]
        ELSE [st |-> [st EXCEPT !.dictionary = Put(@, wc, st.dictSize),
                                !.dictSize = @ + 1,
                                !.w = <<c>>,
                                !.it = @ + 1],
              codes |-> Append(codes, Get(st.dictionary, st.w))]

\* one iteration of the loop over the input
CompressStep(st, codes, c) ==
    LET wc == Append(st.w, c)
    IN  IF wc \in DOMAIN st.dictionary
        THEN [st |-> [st EXCEPT !.w = wc, !.it = @ + 1], codes |-> codes]
        ELSE [st |-> [st EXCEPT !.dictionary = Put(@, wc, st.dictSize),
                                !.dictSize = @ + 1,
                                !.w = <<c>>,
                                !.it = @ + 1],
              codes |-> Append(codes, Get(st.dictionary, st.w))]

CompressStringLoop ==
    /\ pc = "compressString_loop"
    /\ lzwC.it # Len(uncompressed)
    /\ LET r == CompressStep(lzwC, compressed, uncompressed[lzwC.it + 1])
       IN  /\ lzwC' = r.st
           /\ compressed' = r.codes
    /\ UNCHANGED <<call, pc, huffVars, uncompressed, lzwD>>

\* after the loop: the code of w when w is not empty
CompressStringReturn ==
    /\ pc = "compressString_loop"
    /\ lzwC.it = Len(uncompressed)
    /\ compressed' = IF lzwC.w # <<>>
                     THEN Append(compressed, Get(lzwC.dictionary, lzwC.w))
                     ELSE compressed
    /\ pc' = "lzwDecompress"
    /\ UNCHANGED <<call, huffVars, uncompressed, lzwC, lzwD>>

(* -------------------------- LZW: decompress ---------------------------- *)
SeedCodes == [i \in 0..(SeedSize - 1) |-> <<i>>]

\* Dictionary built, then std::string w(1, *begin++).  With an empty code
\* vector begin == end and *begin reads past the vector: the process is
\* killed, or the read finds some value and begin moves beyond end.
LzwDecompressStart ==
    /\ pc = "lzwDecompress"
    /\ \/ /\ compressed # <<>>
          /\ lzwD' = [dictionary |-> SeedCodes, dictSize |-> SeedSize,
                      w |-> <<char(compressed[1])>>, result |-> <<char(compressed[1])>>,
                      entry |-> <<>>, begin |-> 1]
          /\ pc' = "lzwDecompress_loop"
       \/ /\ compressed = <<>>
          /\ \E g \in GarbageCodes :
                lzwD' = [dictionary |-> SeedCodes, dictSize |-> SeedSize,
                         w |-> <<char(g)>>, result |-> <<char(g)>>,
                         entry |-> <<>>, begin |-> 1]
          /\ pc' = "lzwDecompress_loop"
       \/ /\ compressed = <<>>
          /\ lzwD' = [dictionary |-> SeedCodes, dictSize |-> SeedSize, w |-> <<>>,
                      result |-> <<>>, entry |-> <<>>, begin |-> 0]
          /\ pc' = "lzwCrashed"
    /\ UNCHANGED <<call, huffVars, uncompressed, lzwC, compressed>>

\* mutant: the branch k == dictSize is missing, the next code is a bad code
ResolveCode_NoSelfRef(st, k) ==
    IF k \in DOMAIN st.dictionary THEN [ok |-> TRUE, entry |-> st.dictionary[k]]
    ELSE [ok |-> FALSE, entry |-> st.entry]

\* the three-way branch on the code k: known, the next code, or bad
ResolveCode(st, k) ==
    IF k \in DOMAIN st.dictionary THEN [ok |-> TRUE, entry |-> st.dictionary[k]]
    ELSE IF k = st.dictSize THEN [ok |-> TRUE, entry |-> Append(st.w, st.w[1])]
    ELSE [ok |-> FALSE, entry |-> st.entry]

\* mutant: the entry is stored at dictSize but dictSize is not incremented
DecompressStep_NoIncrement(st, entry) ==
    [st EXCEPT !.entry = entry,
               !.result = @ \o entry,
               !.dictionary = Put(@, st.dictSize, Append(st.w, entry[1])),
               !.w = entry,
               !.begin = @ + 1]

\* the rest of the loop body once entry is resolved
DecompressStep(st, entry) ==
    [st EXCEPT !.entry = entry,
               !.result = @ \o entry,
               !.dictionary = Put(@, st.dictSize, Append(st.w, entry[1])),
               !.dictSize = @ + 1,
               !.w = entry,
               !.begin = @ + 1]

\* one iteration on the code k
LzwDecompressOn(k) ==
    LET r == ResolveCode(lzwD, k)
    IN  IF r.ok
        THEN /\ lzwD' = DecompressStep(lzwD, r.entry)
             /\ UNCHANGED pc
        ELSE /\ pc' = "lzwThrown"
             /\ UNCHANGED lzwD

LzwDecompressLoop ==
    /\ pc = "lzwDecompress_loop"
    /\ lzwD.begin # Len(compressed)
    /\ lzwD.begin < Len(compressed)
    /\ LzwDecompressOn(compressed[lzwD.begin + 1])
    /\ UNCHANGED <<call, huffVars, uncompressed, lzwC, compressed>>

\* begin is beyond end: the loop goes on reading past the vector until the
\* process is killed or a value read is a bad code
LzwDecompressOverrun ==
    /\ pc = "lzwDecompress_loop"
    /\ lzwD.begin # Len(compressed)
    /\ lzwD.begin > Len(compressed)
    /\ \/ /\ lzwD.begin - Len(compressed) <= MaxOverrun
          /\ \E g \in GarbageCodes : LzwDecompressOn(g)
       \/ /\ pc' = "lzwCrashed"
          /\ UNCHANGED lzwD
    /\ UNCHANGED <<call, huffVars, uncompressed, lzwC, compressed>>

LzwDecompressReturn ==
    /\ pc = "lzwDecompress_loop"
    /\ lzwD.begin = Len(compressed)
    /\ pc' = "lzwReturned"
    /\ UNCHANGED <<call, huffVars, uncompressed, lzwC, compressed, lzwD>>

(* --------------------------------- runs -------------------------------- *)
ByteTables == UNION {[S -> 0..MaxCount] : S \in SUBSET Alphabet}
\* arbitrary frequency tables: any bytes with any counts, with or without the
\* two sentinels
Tables ==
    {[k \in (DOMAIN t) \cup se |-> IF k \in se THEN 1 ELSE t[k]] :
        t \in ByteTables, se \in SUBSET {PSEUDO_EOF, NOT_A_CHAR}}

NoStream == [data |-> <<>>, pos |-> 0, eof |-> FALSE]
NoOutFile == [bytes |-> <<>>, bits |-> <<>>]
NoEncFile == [bytes |-> <<>>, bits |-> <<>>, pos |-> 0, fail |-> FALSE, bitpos |-> 0]
NoDec == [numBits |-> 0, numBitsRead |-> 0, nextPrefix |-> <<>>]
NoLzwC == [dictionary |-> EmptyMap, dictSize |-> 0, w |-> <<>>, it |-> 0]
NoLzwD == [dictionary |-> EmptyMap, dictSize |-> 0, w |-> <<>>, result |-> <<>>,
           entry |-> <<>>, begin |-> 0]

HuffRest ==
    /\ nodes = <<>> /\ pQueue = <<>> /\ encodingTree = NULL
    /\ outfile = NoOutFile /\ encfile = NoEncFile
    /\ prefixes = EmptyMap /\ extChars = EmptyMap
    /\ dec = NoDec /\ resultFile = <<>>

LzwIdle ==
    /\ uncompressed = <<>> /\ lzwC = NoLzwC /\ compressed = <<>> /\ lzwD = NoLzwD

HuffIdle ==
    /\ tieRule = "fifo" /\ infile = NoStream
    /\ freqTable = EmptyMap /\ table0 = EmptyMap
    /\ HuffRest

InitCompress ==
    /\ call = "compress" /\ pc = "getFrequencyTable"
    /\ tieRule \in {"fifo", "lifo"}
    /\ \E x \in SeqsUpTo(Alphabet, MaxLen) : infile = [data |-> x, pos |-> 0, eof |-> FALSE]
    /\ freqTable = EmptyMap /\ table0 = EmptyMap
    /\ HuffRest /\ LzwIdle

InitTable ==
    /\ call = "table"
    /\ pc \in {"scrambleTable", "buildEncodingTree", "writeFileHeader"}
    /\ tieRule \in {"fifo", "lifo"}
    /\ infile = NoStream
    /\ freqTable \in Tables /\ table0 = freqTable
    /\ HuffRest /\ LzwIdle

\* decompress of a file that holds a well-formed header and any payload
DecodeAlphabet == {65, 190}
DecodeTables ==
    {[k \in (DOMAIN t) \cup {PSEUDO_EOF} |-> IF k = PSEUDO_EOF THEN 1 ELSE t[k]] :
        t \in UNION {[S -> 1..MaxCount] : S \in SUBSET DecodeAlphabet}}
Payloads == {<<>>} \cup [1..BitsPerByte -> {0, 1}]

InitDecode ==
    /\ call = "decode" /\ pc = "readFileHeader"
    /\ tieRule \in {"fifo", "lifo"}
    /\ infile = NoStream
    /\ freqTable = EmptyMap
    /\ table0 \in DecodeTables
    /\ nodes = <<>> /\ pQueue = <<>> /\ encodingTree = NULL
    /\ outfile = NoOutFile
    /\ \E payload \in Payloads :
          encfile = [bytes |-> HeaderBytes(scrambleTable(table0, FALSE)),
                     bits |-> payload, pos |-> 0, fail |-> FALSE, bitpos |-> 0]
    /\ prefixes = EmptyMap /\ extChars = EmptyMap
    /\ dec = NoDec /\ resultFile = <<>>
    /\ LzwIdle

InitLzw ==
    /\ call = "lzw" /\ pc = "compressString"
    /\ uncompressed \in SeqsUpTo(LZWAlphabet, MaxLZWLen)
    /\ lzwC = NoLzwC /\ compressed = <<>> /\ lzwD = NoLzwD
    /\ HuffIdle

InitLzwDecode ==
    /\ call = "lzwdecode" /\ pc = "lzwDecompress"
    /\ compressed \in SeqsUpTo(CodeSet, MaxCodes)
    /\ uncompressed = <<>> /\ lzwC = NoLzwC /\ lzwD = NoLzwD
    /\ HuffIdle

Init == InitCompress \/ InitTable \/ InitDecode \/ InitLzw \/ InitLzwDecode

Next ==
    \/ GetFrequencyTableLoop \/ GetFrequencyTableReturn
    \/ BuildEncodingTreeEnqueue \/ BuildEncodingTreeMerge \/ BuildEncodingTreeReturn
    \/ DerivePrefixes
    \/ ScrambleTable \/ DescrambleTable
    \/ WriteFileHeader \/ Rewind
    \/ EncodeFileStart \/ EncodeFileLoop \/ EncodeFileEnd
    \/ FreeTree \/ Reopen \/ ReadFileHeader
    \/ DecodeFileStart \/ DecodeFileLoop \/ DecodeFileExit
    \/ CompressStringStart \/ CompressStringLoop \/ CompressStringReturn
    \/ LzwDecompressStart \/ LzwDecompressLoop \/ LzwDecompressOverrun
    \/ LzwDecompressReturn

Spec == Init /\ [][Next]_vars

\* decodeFile runs in one sequential thread with nothing to wait for: when
\* its next step is possible it is taken
FairSpec ==
    Spec /\ WF_vars(DecodeFileStart) /\ WF_vars(DecodeFileLoop \/ DecodeFileExit)

(* ------------------------------- claims -------------------------------- *)
IsPrefix(a, b) == Len(a) <= Len(b) /\ SubSeq(b, 1, Len(a)) = a
Occurrences(x, b) == Cardinality({i \in 1..Len(x) : x[i] = b})

RECURSIVE SumCounts(_, _)
SumCounts(t, keys) ==
    IF keys = {} THEN 0
    ELSE LET k == Min(keys) IN t[k] + SumCounts(t, keys \ {k})

RECURSIVE LeafCount(_, _)
LeafCount(ns, n) ==
    IF n = NULL THEN 0
    ELSE IF ns[n].zero = NULL /\ ns[n].one = NULL THEN 1
    ELSE LeafCount(ns, ns[n].zero) + LeafCount(ns, ns[n].one)

\* The header reader stays inside the header text and never fails on a
\* header writeFileHeader wrote.
HeaderReadClean ==
    (call \in {"decompress", "decode"} /\ pc \notin {"reopen", "readFileHeader"})
        => (encfile.pos = Len(encfile.bytes) /\ ~encfile.fail)

\* C1: when decompress has finished on the file compress(x) wrote, the bytes
\* it wrote are exactly x.
C1_HuffmanRoundTrip ==
    (call = "decompress" /\ pc = "done") => resultFile = infile.data

C1_Witness ==
    /\ call = "decompress" /\ pc = "done"
    /\ Len(infile.data) >= 2 /\ infile.data[1] # infile.data[2]
    /\ resultFile = infile.data

\* C2 (as claimed): for every input x, the empty one included, the LZW
\* decompress of compressString(x)'s codes neither crashes nor throws, and
\* what it returns is x.
C2_LzwRoundTripClaim ==
    call = "lzw" =>
        /\ pc \notin {"lzwCrashed", "lzwThrown"}
        /\ (pc = "lzwReturned" => lzwD.result = uncompressed)

\* C3: for a table holding PSEUDO_EOF, descrambleTable after scrambleTable
\* gives back the same keys with the same counts.
C3_ScrambleInvolution ==
    (call = "table" /\ pc = "descrambled" /\ PSEUDO_EOF \in DOMAIN table0)
        => freqTable = table0

C3_Witness ==
    /\ call = "table" /\ pc = "descrambled" /\ PSEUDO_EOF \in DOMAIN table0
    /\ 65 \in DOMAIN table0 /\ 190 \in DOMAIN table0 /\ table0[65] # table0[190]
    /\ 207 \in DOMAIN table0
    /\ freqTable = table0

\* C4 (as claimed): for a table whose only entry is PSEUDO_EOF the root is an
\* internal node and PSEUDO_EOF's code has length at least 1.
C4_DegenerateTreeClaim ==
    (call = "table" /\ pc = "derived" /\ DOMAIN freqTable = {PSEUDO_EOF})
        => /\ (nodes[encodingTree].zero # NULL \/ nodes[encodingTree].one # NULL)
           /\ Len(prefixes[PSEUDO_EOF]) >= 1

\* C5: in the code tables derived from the tree of a non-empty table every
\* symbol of the table has one bitstring, no bitstring is a prefix of (or
\* equal to) another symbol's, and the bitstring->symbol table is the inverse.
C5_PrefixFree ==
    (call = "table" /\ pc = "derived") =>
        /\ DOMAIN prefixes = DOMAIN freqTable
        /\ \A a, b \in DOMAIN prefixes :
               a # b => ~IsPrefix(prefixes[a], prefixes[b])
        /\ DOMAIN extChars = {prefixes[a] : a \in DOMAIN prefixes}
        /\ \A a \in DOMAIN prefixes : extChars[prefixes[a]] = a

C5_Witness ==
    /\ call = "table" /\ pc = "derived"
    /\ Cardinality(DOMAIN freqTable) >= 4
    /\ \E a, b \in DOMAIN prefixes : Len(prefixes[a]) # Len(prefixes[b])

\* C6: the root buildEncodingTree returns weighs the sum of all counts of the
\* table, and the tree has one leaf per key of the table.
C6_RootWeightAndLeaves ==
    (call = "table" /\ pc \in {"derivePrefixes", "derived"}) =>
        /\ nodes[encodingTree].weight = SumCounts(freqTable, DOMAIN freqTable)
        /\ LeafCount(nodes, encodingTree) = Cardinality(DOMAIN freqTable)

C6_Witness ==
    /\ call = "table" /\ pc = "derivePrefixes"
    /\ Cardinality(DOMAIN freqTable) >= 3
    /\ nodes[encodingTree].weight >= 4

\* C7 (as claimed): decodeFile never reads more bits than 8 times the number
\* of payload bytes.
C7_BitBudgetClaim ==
    dec.numBitsRead <= 8 * (Len(encfile.bits) \div BitsPerByte)

\* C8 (as claimed): a code at any position, the first included, that is
\* neither a key of the decoder's dictionary nor the next code to be assigned
\* makes decompress throw.
C8_CorruptRejectedClaim ==
    [][/\ (/\ pc = "lzwDecompress" /\ compressed # <<>>
           /\ compressed[1] \notin DOMAIN SeedCodes
           /\ compressed[1] # SeedSize) => pc' = "lzwThrown"
       /\ (/\ pc = "lzwDecompress_loop" /\ lzwD.begin < Len(compressed)
           /\ compressed[lzwD.begin + 1] \notin DOMAIN lzwD.dictionary
           /\ compressed[lzwD.begin + 1] # lzwD.dictSize) => pc' = "lzwThrown"]_vars

\* C9: after the frequency pass the table maps each byte of x to its number
\* of occurrences, has no other byte and no NOT_A_CHAR, and holds PSEUDO_EOF
\* with count 1; the end of the input is no error.
C9_FrequencyTable ==
    /\ (call = "compress" /\ pc = "buildEncodingTree") =>
           /\ DOMAIN freqTable =
                  {infile.data[i] : i \in 1..Len(infile.data)} \cup {PSEUDO_EOF}
           /\ \A b \in DOMAIN freqTable \ {PSEUDO_EOF} :
                  freqTable[b] = Occurrences(infile.data, b)
           /\ freqTable[PSEUDO_EOF] = 1
           /\ NOT_A_CHAR \notin DOMAIN freqTable
    /\ call = "compress" => pc \notin {"error", "peekError"}

C9_Witness ==
    /\ call = "compress" /\ pc = "buildEncodingTree"
    /\ \E b \in DOMAIN freqTable : freqTable[b] >= 2
    /\ Cardinality(DOMAIN freqTable) >= 3

\* C10: writeFileHeader on a table without PSEUDO_EOF ends in the error state
\* with the output stream unchanged, and the error state is never left.
C10_MissingEofIsFatal ==
    [][/\ (pc = "writeFileHeader" /\ PSEUDO_EOF \notin DOMAIN freqTable)
              => (pc' = "error" /\ outfile' = outfile)
       /\ pc = "error" => (pc' = "error" /\ outfile' = outfile)]_vars

C10_Witness ==
    /\ call = "table" /\ pc = "error"
    /\ PSEUDO_EOF \notin DOMAIN table0 /\ DOMAIN table0 # {}
    /\ outfile = NoOutFile

\* C11: compress of a zero-length input writes the header "0 " (N = 0, no
\* pair) followed by the bits of PSEUDO_EOF's code and nothing else, and
\* decompress of that file writes no byte.
C11_EmptyInput ==
    infile.data = <<>> =>
        /\ (call = "compress" /\ pc \in {"freeTree", "reopen"}) =>
               /\ outfile.bytes = <<48, 32>>
               /\ outfile.bits = writeEncodingPrefix(prefixes[PSEUDO_EOF])
        /\ call = "decompress" =>
               /\ encfile.bytes = <<48, 32>>
               /\ encfile.bits = PadToByte(writeEncodingPrefix(prefixes[PSEUDO_EOF]))
               /\ resultFile = <<>>

C11_Witness ==
    /\ call = "decompress" /\ pc = "done" /\ infile.data = <<>>
    /\ infile.eof
    /\ encfile.bytes = <<48, 32>> /\ dec.numBitsRead > 0
    /\ resultFile = <<>>

\* tables the header round trip is claimed for: PSEUDO_EOF with count 1 and
\* byte symbols with positive counts
HeaderTable(t) ==
    /\ PSEUDO_EOF \in DOMAIN t /\ t[PSEUDO_EOF] = 1
    /\ \A k \in DOMAIN t \ {PSEUDO_EOF} : k \in 0..(ByteRange - 1) /\ t[k] > 0

\* C12: for such a table t, readFileHeader on the bytes writeFileHeader(t)
\* wrote returns t as it was before the write (same byte symbols, same
\* counts, PSEUDO_EOF with count 1), and the count N at the head of those
\* bytes is the number of entries of t other than PSEUDO_EOF.
C12_HeaderRoundTrip ==
    (call = "table" /\ pc = "headerRead" /\ HeaderTable(table0)) =>
        /\ freqTable = table0
        /\ ExtractInt([encfile EXCEPT !.pos = 0]).val = Cardinality(DOMAIN table0) - 1
        /\ encfile.pos = Len(encfile.bytes) /\ ~encfile.fail

C12_Witness ==
    /\ call = "table" /\ pc = "headerRead" /\ HeaderTable(table0)
    /\ {65, 207, 223} \subseteq DOMAIN table0
    /\ table0[65] # table0[207]
    /\ freqTable = table0
    /\ Len(encfile.bytes) >= 11

\* the scan of compressString replayed on x: the number of lookups of w + c
\* with a non-empty w that find an entry of the dictionary
RECURSIVE RepeatHitsFrom(_, _)
RepeatHitsFrom(st, x) ==
    IF st.it = Len(x) THEN 0
    ELSE LET c == x[st.it + 1]
             hit == st.w # <<>> /\ Append(st.w, c) \in DOMAIN st.dictionary
         IN  (IF hit THEN 1 ELSE 0) + RepeatHitsFrom(CompressStep(st, <<>>, c).st, x)

RepeatHits(x) ==
    RepeatHitsFrom([dictionary |-> [s \in SeedStrings |-> s[1]], dictSize |-> SeedSize,
                    w |-> <<>>, it |-> 0], x)

\* C13: compressString emits at most Len(x) codes, and fewer than Len(x) as
\* soon as one lookup of w + c with a non-empty w found an entry.
C13_LzwGrowth ==
    (call = "lzw" /\ pc = "lzwDecompress") =>
        /\ Len(compressed) <= Len(uncompressed)
        /\ RepeatHits(uncompressed) > 0 => Len(compressed) < Len(uncompressed)

C13_Witness ==
    /\ call = "lzw" /\ pc = "lzwDecompress"
    /\ RepeatHits(uncompressed) > 0
    /\ Len(compressed) < Len(uncompressed)
    /\ \E i \in 1..Len(compressed) : compressed[i] >= SeedSize

\* the accumulated bitstring once the bit the next read returns is appended
Accumulated ==
    Append(dec.nextPrefix, IF readBit(encfile).bit = 0 THEN "0" ELSE "1")

\* C14: a step of the decode loop reads one bit; when the accumulated
\* bitstring is PSEUDO_EOF's code the loop is left with no byte written, and
\* from then on no bit is read and no byte is written; when it is the code of
\* another symbol exactly that symbol's byte is written and the accumulator
\* is emptied; otherwise nothing is written and the accumulator keeps the bit.
C14_StopsAtEof ==
    [][/\ (pc = "decodeFile_loop" /\ pc' = "decodeFile_loop") =>
              /\ dec'.numBitsRead = dec.numBitsRead + 1
              /\ IF Accumulated \in DOMAIN extChars
                 THEN /\ extChars[Accumulated] # PSEUDO_EOF
                      /\ resultFile' = Append(resultFile, char(extChars[Accumulated]))
                      /\ dec'.nextPrefix = <<>>
                 ELSE /\ resultFile' = resultFile
                      /\ dec'.nextPrefix = Accumulated
       /\ (/\ pc = "decodeFile_loop" /\ dec.numBitsRead <= dec.numBits
           /\ Accumulated \in DOMAIN extChars
           /\ extChars[Accumulated] = PSEUDO_EOF) =>
              (pc' = "freeTree" /\ resultFile' = resultFile)
       /\ (call \in {"decompress", "decode"} /\ pc \in {"freeTree", "done"}) =>
              /\ pc' \in {"freeTree", "done"}
              /\ encfile' = encfile /\ dec' = dec /\ resultFile' = resultFile]_vars

C14_Witness ==
    /\ call = "decode" /\ pc = "done"
    /\ Len(resultFile) >= 2 /\ resultFile[1] # resultFile[2]
    /\ dec.numBitsRead < Len(encfile.bits)
    /\ encfile.bitpos = dec.numBitsRead
    /\ dec.nextPrefix = <<>>

\* every node under n has no child or two, and a node with children carries
\* NOT_A_CHAR
RECURSIVE FullTree(_, _)
FullTree(ns, n) ==
    IF ns[n].zero = NULL /\ ns[n].one = NULL THEN TRUE
    ELSE /\ ns[n].zero # NULL /\ ns[n].one # NULL
         /\ ns[n].character = NOT_A_CHAR
         /\ FullTree(ns, ns[n].zero) /\ FullTree(ns, ns[n].one)

QueuedNodes(pq) == {pq[i].value : i \in 1..Len(pq)}

\* C15: each merge step takes out a node of minimum weight among the queued
\* nodes, then a node of minimum weight among the rest, and queues a new
\* NOT_A_CHAR node whose zero child is the first, whose one child is the
\* second and whose weight is their sum; the tree returned has only nodes
\* with no child or two, those with children carrying NOT_A_CHAR.
C15_MergeOrderAndShape ==
    [][/\ (pc = "buildEncodingTree_merge" /\ Len(pQueue) > 1) =>
              LET parent == nodes'[Len(nodes')]
                  queued == QueuedNodes(pQueue)
              IN  /\ Len(nodes') = Len(nodes) + 1
                  /\ SubSeq(nodes', 1, Len(nodes)) = nodes
                  /\ parent.zero \in queued /\ parent.one \in queued \ {parent.zero}
                  /\ \A v \in queued : nodes[parent.zero].weight <= nodes[v].weight
                  /\ \A v \in queued \ {parent.zero} :
                         nodes[parent.one].weight <= nodes[v].weight
                  /\ parent.weight = nodes[parent.zero].weight + nodes[parent.one].weight
                  /\ parent.character = NOT_A_CHAR
                  /\ QueuedNodes(pQueue') =
                         (queued \ {parent.zero, parent.one}) \cup {Len(nodes')}
                  /\ Len(pQueue') = Len(pQueue) - 1
       /\ (pc = "buildEncodingTree_merge" /\ Len(pQueue) = 1) =>
              /\ encodingTree' = pQueue[1].value
              /\ FullTree(nodes', encodingTree')]_vars

C15_Witness ==
    /\ call = "table" /\ pc = "derivePrefixes"
    /\ Cardinality(DOMAIN freqTable) >= 4
    /\ FullTree(nodes, encodingTree)
    /\ nodes[encodingTree].zero # NULL
    /\ \E n \in 1..Len(nodes) :
          /\ nodes[n].zero # NULL
          /\ nodes[nodes[n].zero].weight < nodes[nodes[n].one].weight
          /\ nodes[nodes[n].one].zero # NULL

\* a code as bits, first character first: '0' is bit 0 and '1' is bit 1
CodeBits(code) == [i \in 1..Len(code) |-> IF code[i] = "1" THEN 1 ELSE 0]

\* code(x[1]) ++ ... ++ code(x[n]) under the code table codes
RECURSIVE CodeConcat(_, _)
CodeConcat(codes, x) ==
    IF x = <<>> THEN <<>>
    ELSE CodeBits(codes[x[1]]) \o CodeConcat(codes, SubSeq(x, 2, Len(x)))

\* C16: while encodeFile reads x the bits written are the codes of the bytes
\* read so far, in order; when it returns they are the codes of all of x
\* followed by PSEUDO_EOF's code, once and last.
C16_EncodeOutput ==
    call = "compress" =>
        /\ pc = "encodeFile_loop" =>
               /\ \A i \in 1..Len(infile.data) : infile.data[i] \in DOMAIN prefixes
               /\ PSEUDO_EOF \in DOMAIN prefixes
               /\ \A b \in DOMAIN prefixes :
                      \A i \in 1..Len(prefixes[b]) : prefixes[b][i] \in {"0", "1"}
               /\ outfile.bits = CodeConcat(prefixes, SubSeq(infile.data, 1, infile.pos))
        /\ pc \in {"freeTree", "reopen"} =>
               outfile.bits = CodeConcat(prefixes, infile.data)
                                  \o CodeBits(prefixes[PSEUDO_EOF])

C16_Witness ==
    /\ call = "compress" /\ pc = "freeTree"
    /\ Len(infile.data) >= 3
    /\ \E i \in 1..Len(infile.data) :
          /\ Len(prefixes[infile.data[i]]) >= 2
          /\ prefixes[infile.data[i]][1] # prefixes[infile.data[i]][2]
    /\ Len(prefixes[PSEUDO_EOF]) >= 2
    /\ outfile.bits = CodeConcat(prefixes, infile.data) \o CodeBits(prefixes[PSEUDO_EOF])

\* the compressor's dictionary holds every single byte under its own value,
\* and only codes below the next free one
SeededStrings(d, n) ==
    /\ \A i \in 0..(SeedSize - 1) : <<i>> \in DOMAIN d /\ d[<<i>>] = i
    /\ \A k \in DOMAIN d : d[k] >= 0 /\ d[k] < n
    /\ Cardinality(DOMAIN d) = n

\* the same for the decoder's dictionary, whose keys are the codes
SeededByCode(d, n) ==
    /\ \A i \in 0..(SeedSize - 1) : i \in DOMAIN d /\ d[i] = <<i>>
    /\ DOMAIN d = 0..(n - 1)

\* d2 keeps every entry of d as it was
Keeps(d, d2) == DOMAIN d \subseteq DOMAIN d2 /\ \A k \in DOMAIN d : d2[k] = d[k]

\* C17: from their seeding on, both LZW dictionaries hold the 256 single-byte
\* entries under codes 0..255 and the next free code starts at 256; a step
\* never removes or changes an entry, adds at most one, gives it the next
\* free code, and then the next free code is one more; it never goes down.
C17_DictionaryMonotone ==
    [][/\ pc = "compressString" =>
              (SeededStrings(lzwC'.dictionary, SeedSize) /\ lzwC'.dictSize = SeedSize)
       /\ (call = "lzw" /\ pc \in {"compressString_loop", "lzwDecompress",
                                   "lzwDecompress_loop"}) =>
              LET added == DOMAIN lzwC'.dictionary \ DOMAIN lzwC.dictionary
              IN  /\ Keeps(lzwC.dictionary, lzwC'.dictionary)
                  /\ Cardinality(added) <= 1
                  /\ \A k \in added : lzwC'.dictionary[k] = lzwC.dictSize
                  /\ lzwC'.dictSize = lzwC.dictSize + Cardinality(added)
                  /\ SeededStrings(lzwC'.dictionary, lzwC'.dictSize)
       /\ pc = "lzwDecompress" =>
              (SeededByCode(lzwD'.dictionary, SeedSize) /\ lzwD'.dictSize = SeedSize)
       /\ pc = "lzwDecompress_loop" =>
              LET added == DOMAIN lzwD'.dictionary \ DOMAIN lzwD.dictionary
              IN  /\ Keeps(lzwD.dictionary, lzwD'.dictionary)
                  /\ added \subseteq {lzwD.dictSize}
                  /\ lzwD'.dictSize = lzwD.dictSize + Cardinality(added)
                  /\ SeededByCode(lzwD'.dictionary, lzwD'.dictSize)]_vars

C17_Witness ==
    /\ call = "lzw" /\ pc = "lzwReturned"
    /\ lzwC.dictSize >= SeedSize + 2 /\ lzwD.dictSize >= SeedSize + 2
    /\ SeededStrings(lzwC.dictionary, lzwC.dictSize)
    /\ SeededByCode(lzwD.dictionary, lzwD.dictSize)

\* C18: after scrambleTable on a table t, for every byte s the entry at
\* 255 - s exists exactly when t had an entry at s and holds t's count for s
\* (so each pair is swapped once, not twice), the table has as many entries
\* as t, and the PSEUDO_EOF and NOT_A_CHAR entries are as in t.
C18_ScrambleMapping ==
    (call = "table" /\ pc \in {"descrambleTable", "reopen"}) =>
        /\ \A s \in 0..(ByteRange - 1) :
               /\ (PairBase - s) \in DOMAIN freqTable <=> s \in DOMAIN table0
               /\ s \in DOMAIN table0 => freqTable[PairBase - s] = table0[s]
        /\ Cardinality(DOMAIN freqTable) = Cardinality(DOMAIN table0)
        /\ \A k \in {PSEUDO_EOF, NOT_A_CHAR} :
               /\ k \in DOMAIN freqTable <=> k \in DOMAIN table0
               /\ k \in DOMAIN table0 => freqTable[k] = table0[k]

C18_Witness ==
    /\ call = "table" /\ pc = "descrambleTable"
    /\ {65, 190, 207} \subseteq DOMAIN table0 /\ 223 \notin DOMAIN table0
    /\ table0[65] # table0[190]
    /\ NOT_A_CHAR \in DOMAIN table0
    /\ freqTable[65] = table0[190] /\ freqTable[190] = table0[65]
    /\ 48 \in DOMAIN freqTable /\ 207 \notin DOMAIN freqTable

\* the table a frequency pass over x gives
Counted(x) ==
    [b \in {x[i] : i \in 1..Len(x)} \cup {PSEUDO_EOF} |->
        IF b = PSEUDO_EOF THEN 1 ELSE Occurrences(x, b)]

\* the <<character, weight>> pairs of the leaves under n
RECURSIVE Leaves(_, _)
Leaves(ns, n) ==
    IF n = NULL THEN {}
    ELSE IF ns[n].zero = NULL /\ ns[n].one = NULL
    THEN {<<ns[n].character, ns[n].weight>>}
    ELSE Leaves(ns, ns[n].zero) \cup Leaves(ns, ns[n].one)

\* C19: in compress the tree is built, with nothing written yet, after the
\* frequency pass has read the input to its end, and from the table as
\* counted; the header is written whole (from the scrambled table) before any
\* payload bit; the input is back at its start, end-of-file cleared, when
\* encodeFile begins, and encodeFile reads it to its end again.
C19_PipelineOrder ==
    call = "compress" =>
        /\ pc = "getFrequencyTable" => (outfile = NoOutFile /\ nodes = <<>>)
        /\ pc \in {"buildEncodingTree", "buildEncodingTree_merge", "writeFileHeader"} =>
               /\ infile.eof /\ infile.pos = Len(infile.data)
               /\ freqTable = Counted(infile.data)
               /\ outfile = NoOutFile
        /\ pc \in {"writeFileHeader", "rewind", "encodeFile", "encodeFile_loop"} =>
               Leaves(nodes, encodingTree) =
                   {<<b, Counted(infile.data)[b]>> : b \in DOMAIN Counted(infile.data)}
        /\ pc \in {"rewind", "encodeFile", "encodeFile_loop", "freeTree"} =>
               /\ freqTable = scrambleTable(Counted(infile.data), FALSE)
               /\ outfile.bytes = HeaderBytes(freqTable)
        /\ pc = "rewind" => (infile.eof /\ outfile.bits = <<>>)
        /\ pc = "encodeFile" =>
               (infile.pos = 0 /\ ~infile.eof /\ outfile.bits = <<>>)
        /\ (pc = "encodeFile_loop" /\ infile.pos = 0) => outfile.bits = <<>>
        /\ pc = "freeTree" => (infile.eof /\ infile.pos = Len(infile.data))

C19_Witness ==
    /\ call = "compress" /\ pc = "encodeFile_loop"
    /\ Len(infile.data) >= 2 /\ infile.pos = 1
    /\ outfile.bits # <<>>
    /\ outfile.bytes = HeaderBytes(freqTable)
    /\ freqTable # Counted(infile.data)

\* the string the compressor's dictionary d holds under code k
CodeString(d, k) == CHOOSE str \in DOMAIN d : d[str] = k

\* the strings of the first n codes, one after the other
RECURSIVE Phrases(_, _, _)
Phrases(d, codes, n) ==
    IF n = 0 THEN <<>>
    ELSE Phrases(d, codes, n - 1) \o CodeString(d, codes[n])

\* C20: for a non-empty input, each code the compressor emits is the code of
\* the prefix w it holds, the emitted prefixes followed by w spell the input
\* read so far; the decoder neither throws nor crashes, the string it
\* resolves for the i-th code is that prefix (its w after i codes), its output
\* is the prefixes of the codes processed, and after i codes it has added
\* the entries 256 .. 254 + i, each with the string the compressor gave that
\* code, i.e. it is one entry behind the compressor.
C20_Lockstep ==
    (call = "lzw" /\ uncompressed # <<>>) =>
        /\ pc = "compressString_loop" =>
               /\ \A i \in 1..Len(compressed) :
                      \E str \in DOMAIN lzwC.dictionary :
                          lzwC.dictionary[str] = compressed[i]
               /\ Phrases(lzwC.dictionary, compressed, Len(compressed)) \o lzwC.w
                      = SubSeq(uncompressed, 1, lzwC.it)
               /\ lzwC.dictSize = SeedSize + Len(compressed)
        /\ pc \notin {"lzwThrown", "lzwCrashed"}
        /\ pc \in {"lzwDecompress_loop", "lzwReturned"} =>
               /\ lzwD.begin \in 1..Len(compressed)
               /\ lzwD.w = CodeString(lzwC.dictionary, compressed[lzwD.begin])
               /\ lzwD.result = Phrases(lzwC.dictionary, compressed, lzwD.begin)
               /\ lzwD.dictSize = SeedSize + lzwD.begin - 1
               /\ \A k \in SeedSize..(lzwD.dictSize - 1) :
                      /\ lzwD.dictionary[k] \in DOMAIN lzwC.dictionary
                      /\ lzwC.dictionary[lzwD.dictionary[k]] = k
        /\ pc = "lzwReturned" =>
               /\ lzwD.dictSize = lzwC.dictSize
               /\ \A str \in DOMAIN lzwC.dictionary :
                      lzwD.dictionary[lzwC.dictionary[str]] = str

\* a run with the self-referential case: the second code is 256, the code
\* the decoder is about to assign
C20_Witness ==
    /\ call = "lzw" /\ pc = "lzwReturned"
    /\ Len(compressed) >= 3
    /\ compressed[2] = SeedSize
    /\ lzwD.dictionary[SeedSize] = <<uncompressed[1], uncompressed[1]>>
    /\ lzwD.result = uncompressed

\* C21: decodeFile always comes to its end.  Its bit budget is 8 times the
\* size the input reports, every pass of the loop counts one read, and the
\* count never exceeds the budget by more than one; when the loop ends with
\* no PSEUDO_EOF match it has counted exactly budget + 1 reads, and what is
\* left in the accumulator is written nowhere.
C21_DecodeTerminates ==
    /\ [](pc = "decodeFile_loop" =>
             /\ dec.numBits = size(encfile) * BitsPerByte
             /\ dec.numBitsRead <= dec.numBits + 1)
    /\ [][pc = "decodeFile_loop" =>
             IF dec' = dec
             THEN /\ pc' = "freeTree"
                  /\ dec.numBitsRead = dec.numBits + 1
                  /\ resultFile' = resultFile /\ encfile' = encfile
             ELSE /\ dec'.numBitsRead = dec.numBitsRead + 1
                  /\ dec'.numBits = dec.numBits]_vars
    /\ (pc = "decodeFile" ~> pc = "freeTree")
    /\ (pc = "decodeFile_loop" ~> pc = "freeTree")

\* a corrupt payload: the loop ended on its budget, not on a match, with bits
\* left in the accumulator
C21_Witness ==
    /\ call = "decode" /\ pc = "done"
    /\ Len(encfile.bits) = BitsPerByte
    /\ Cardinality(DOMAIN freqTable) >= 2
    /\ dec.numBitsRead = dec.numBits + 1
    /\ dec.nextPrefix # <<>>
    /\ resultFile # <<>>

====
